---- MODULE Spec2Model ----
(***************************************************************************)
(* Model of the EHR-Distillation gradient-matching orchestrator            *)
(* (src/gm_run.py) and of its preprocessing module                         *)
(* (src/utils/preprocess.py).                                              *)
(*                                                                         *)
(* Spec      : the outer optimization loop of main(), from "Ready for      *)
(*             training" to the break of the last iteration.               *)
(***************************************************************************)
EXTENDS Integers, Sequences, FiniteSets, TLC

(***************************************************************************)
(* Hyper-parameters of main().                                             *)
(***************************************************************************)
NUM_OUTER_LOOPS == 1000
EVAL_INTERVAL == 100
NUM_EVAL_EPOCHS == 1000
NUM_SAMPLED_NETS_EVAL == 4
NUM_INNER_LOOPS == 10
NUM_UPDT_STEPS_NET == 50
IHM_NUM_CLS == 2
FIX_INIT_WEIGHTS == FALSE
CLAMP_AFTER_EACH_IT == FALSE

VARIABLES
    pc,                 \* position of main() in the outer loop
    rangeNext,          \* next index range(NUM_OUTER_LOOPS+1) will yield
    it,                 \* loop variable of the outer loop (-1: not yet bound)
    mem,                \* tensor storages: storage id -> content
    nextId,             \* next fresh storage id
    feat_syn,           \* storage id of the live synthetic feature tensor
    lab_syn,            \* storage id of the synthetic label tensor
    feat_syn_snapshot,  \* storage id of the snapshot of the current round
    feat_syn_snapshots, \* list of storage ids of all snapshots
    eval_its,           \* iterations at which evaluation ran
    eval_scores_train,
    eval_scores_test,
    avg_losses,
    files,              \* regular files of OUT_DIR: name -> content
    checkpoint,         \* the checkpoint dict held in memory
    sampled_nets,       \* evaluation networks: number of SGD steps each took
    local_scores,       \* number of evaluation networks already scored
    net,                \* matching network: [id, steps]
    l, cls,             \* inner loop counters
    feat_syn_train,     \* storage id of the copy used for the network update
    lab_syn_train,
    grads,              \* per class: what the gradients were computed against
    dataSteps,          \* optimizer_feat.step() calls of the current iteration
    netSteps            \* optimizer_net.step() calls of the current iteration

\* startup of main() and the batch preprocessing driver
VARIABLES
    phase,              \* position of main() in its startup sequence
    args,               \* the parsed command line
    err,                \* the uncaught exception that ended the run, or "none"
    prevAbort,          \* the split whose preprocessing pass a file name that
                        \* does not parse aborted in the previous run, or "none"
    dirs,               \* the directories that exist
    statsPkl,           \* whether ./saved_data/stats/ihm_preliminary.pkl exists
    rawDir,             \* per split: the benchmark directory (input, read only)
    outFiles,           \* per split: the files of ./data/mimic3/ihm_preliminary/<split>/
    preSplit,           \* the split of the running preprocessing / unification call
    ts_files,           \* glob result of the running preprocessing pass
    fileIdx,            \* index in ts_files of the file the pass handles next
    ran,                \* the calls this run has made
    io                  \* the file-system operations this run has made

mainVars == <<pc, rangeNext, it, mem, nextId, feat_syn, lab_syn, feat_syn_snapshot,
              feat_syn_snapshots, eval_its, eval_scores_train, eval_scores_test,
              avg_losses, files, checkpoint, sampled_nets, local_scores, net,
              l, cls, feat_syn_train, lab_syn_train, grads, dataSteps, netSteps>>

\* the network update loop of the matching procedure, step by step
VARIABLES
    s                   \* loop variable of "for s in range(NUM_UPDT_STEPS_NET)"

stepVars == <<s>>

\* distance_wb(gwr, gws)
VARIABLES
    dPhase,             \* "call" before the call, "return" after it
    gwr,                \* gradient of the real batch
    gws,                \* gradient of the synthetic batch
    dis                 \* the distance returned

distVars == <<dPhase, gwr, gws, dis>>

\* map_mimic3_benchmark_categorical_label(name, value)
VARIABLES
    mPhase,             \* "call" before the call, "return" after it
    mName,              \* argument name
    mValue,             \* argument value
    mResult             \* what the call returned or raised

\* preprocess_ihm_timeseires(df, feature_dict, normal_value_dict, resample_rate)
VARIABLES
    cPhase,             \* position in the function
    cName,              \* the feature column that is followed
    cRate,              \* resample_rate
    cRaw,               \* the raw episode table as it was passed in
    df                  \* the data frame: the rows of "hours" and of column cName

\* compute_feature_statistics(ts_dir, feature_dict)
VARIABLES
    sPhase,             \* "call" before the call, "return" after it
    sName,              \* the feature column that is followed
    sFiles,             \* that column in each of the csv files of ts_dir
    df_in_one,          \* that column of the concatenated frame
    sResult             \* the statistic returned for the column

statVars == <<sPhase, sName, sFiles, df_in_one, sResult>>

mapVars == <<mPhase, mName, mValue, mResult>>
cleanVars == <<cPhase, cName, cRate, cRaw, df>>

startVars == <<phase, args, err, prevAbort, dirs, statsPkl, rawDir, outFiles,
               preSplit, ts_files, fileIdx, ran, io>>

vars == <<mainVars, startVars, mapVars, cleanVars, statVars, stepVars,
          distVars>>

NoTensor == -1

\* --spc, the number of synthetic samples per class the run was started with
SPC == 1

(***************************************************************************)
(* Tensor operations.  A tensor is named by the id of its storage; the     *)
(* content of the synthetic feature tensor is abstracted to the number of  *)
(* in-place updates its storage has received.                              *)
(***************************************************************************)
Range(f) == {f[x] : x \in DOMAIN f}

\* t.detach(): a new tensor object over the same storage
Detach(t) == t

\* storages after t.clone() / copy.deepcopy(t): a fresh storage, same content
Clone(m, t, id) == [x \in DOMAIN m \cup {id} |-> IF x = id THEN m[t] ELSE m[x]]

\* a mutation that drops the clone(): the "copy" shares the live storage
DetachClone_NoClone(m, t, id) == [t |-> Detach(t), m |-> m]

\* t.detach().clone(): the new tensor and the storages after the call
DetachClone(m, t, id) == [t |-> id, m |-> Clone(m, Detach(t), id)]

\* storages still referenced by main()'s long-lived variables
Pinned == {feat_syn, lab_syn} \cup Range(feat_syn_snapshots)

\* storages after one reference to storage t is dropped
Release(m, t) == IF t \in Pinned THEN m ELSE [x \in DOMAIN m \ {t} |-> m[x]]

\* in-place update of the storage of t (optimizer step, clamp_)
StepInPlace(m, t) == [m EXCEPT ![t] = @ + 1]

\* optimizer_feat.step(), then feat_syn.clamp_(-1, 1) when the flag is set
DataUpdate(m, t) ==
    IF CLAMP_AFTER_EACH_IT THEN StepInPlace(StepInPlace(m, t), t)
    ELSE StepInPlace(m, t)

\* the checkpoint file of the run configuration (objective, spc, init mode)
CheckpointPath == <<"chckpnt_ihm_", SPC, "spc_noise.pth">>

\* the visualisation file of the evaluation round of iteration i
EvalVisPath(i) == <<"it", i, ".png">>

\* files written before the loop starts
InitVisPath == <<"syn_data_init_vis", 0, ".png">>
InitDistrPath == <<"syn_data_init_distr", 0, ".png">>

\* train / test AUROC of an evaluation round and average loss of a matching
\* procedure: opaque values, named by the iteration that produced them
ScoreOf(i) == i
LossOf(i) == i

\* torch.save(checkpoint, filepath): tensors and lists are written by value
Serialize(m, c) ==
    [it |-> c.it,
     feat_syn |-> m[c.feat_syn],
     lab_syn |-> m[c.lab_syn],
     optim_losses |-> avg_losses,
     eval_its |-> eval_its,
     feat_syn_snapshots |-> [i \in DOMAIN feat_syn_snapshots |-> m[feat_syn_snapshots[i]]],
     eval_scores_train |-> eval_scores_train,
     eval_scores_test |-> eval_scores_test]

WriteFile(fs, path, content) ==
    [p \in DOMAIN fs \cup {path} |-> IF p = path THEN content ELSE fs[p]]

\* the checkpoint an earlier, finished run of the same configuration left in
\* an --outdir that is used again
StaleCheckpoint ==
    [it |-> NUM_OUTER_LOOPS, feat_syn |-> NUM_OUTER_LOOPS * NUM_INNER_LOOPS,
     lab_syn |-> 0, optim_losses |-> <<>>, eval_its |-> <<>>,
     feat_syn_snapshots |-> <<>>, eval_scores_train |-> <<>>,
     eval_scores_test |-> <<>>]

NoCheckpoint == [it |-> -1, feat_syn |-> NoTensor, lab_syn |-> NoTensor]
PngContent(v) == [png |-> v]

\* the startup sequence has finished: "Ready for training"
StartupDone ==
    /\ phase = "ready"
    /\ args = [testflag |-> FALSE, outdir |-> "none"]
    /\ err = "none"
    /\ prevAbort = "none"
    /\ dirs = {}
    /\ statsPkl = TRUE
    /\ rawDir = <<>>
    /\ outFiles = <<>>
    /\ preSplit = "none"
    /\ ts_files = <<>>
    /\ fileIdx = 0
    /\ ran = {}
    /\ io = {}

(***************************************************************************)
(* Cell values of a data frame: missing (NaN), a number, a text.           *)
(***************************************************************************)
NaN == [kind |-> "nan", num |-> 0, chars |-> <<>>]
Num(n) == [kind |-> "num", num |-> n, chars |-> <<>>]
Str(str) == [kind |-> "str", num |-> 0, chars |-> str]
Raised(e) == [kind |-> "raised", num |-> 0, chars |-> e]

\* pd.isna(value)
IsNa(v) == v.kind = "nan"

\* no call of the categorical mapping is studied
MapIdle ==
    /\ mPhase = "idle"
    /\ mName = "none"
    /\ mValue = NaN
    /\ mResult = NaN

\* a tensor: its shape and its elements in row-major order
Tensor(shape, data) == [shape |-> shape, data |-> data]

\* no call of the distance function is studied
DistIdle ==
    /\ dPhase = "idle"
    /\ gwr = Tensor(<<>>, <<>>)
    /\ gws = Tensor(<<>>, <<>>)
    /\ dis = [zero |-> FALSE, rows |-> <<>>]

\* no call of the statistics function is studied
StatIdle ==
    /\ sPhase = "idle"
    /\ sName = "none"
    /\ sFiles = <<>>
    /\ df_in_one = <<>>
    /\ sResult = NaN

\* no call of the cleaning function is studied
CleanIdle ==
    /\ cPhase = "idle"
    /\ cName = "none"
    /\ cRate = 1
    /\ cRaw = <<>>
    /\ df = <<>>

Init ==
    /\ StartupDone
    /\ MapIdle
    /\ CleanIdle
    /\ StatIdle
    /\ DistIdle
    /\ pc = "for"
    /\ rangeNext = 0
    /\ it = -1
    /\ mem = (0 :> 0) @@ (1 :> 0)
    /\ nextId = 2
    /\ feat_syn = 0
    /\ lab_syn = 1
    /\ feat_syn_snapshot = NoTensor
    /\ feat_syn_snapshots = <<>>
    /\ eval_its = <<>>
    /\ eval_scores_train = <<>>
    /\ eval_scores_test = <<>>
    /\ avg_losses = <<>>
    /\ \E stale \in BOOLEAN :
          files = IF stale
                  THEN (InitVisPath :> PngContent(0)) @@ (InitDistrPath :> PngContent(0))
                       @@ (CheckpointPath :> StaleCheckpoint)
                  ELSE (InitVisPath :> PngContent(0)) @@ (InitDistrPath :> PngContent(0))
    /\ checkpoint = NoCheckpoint
    /\ sampled_nets = <<>>
    /\ local_scores = 0
    /\ net = [id |-> 0, steps |-> 0]
    /\ l = 0 /\ cls = 0
    /\ feat_syn_train = NoTensor
    /\ lab_syn_train = NoTensor
    /\ grads = <<>>
    /\ dataSteps = 0
    /\ netSteps = 0
    /\ s = 0
    /\ DistIdle

(***************************************************************************)
(* The outer loop of main().                                               *)
(***************************************************************************)
\* for it in pbar: the next index of range(NUM_OUTER_LOOPS+1)
ForNext ==
    /\ pc = "for"
    /\ IF rangeNext <= NUM_OUTER_LOOPS
       THEN /\ it' = rangeNext
            /\ rangeNext' = rangeNext + 1
            /\ pc' = "eval_if"
       ELSE /\ pc' = "done"
            /\ UNCHANGED <<it, rangeNext>>
    /\ UNCHANGED <<mem, nextId, feat_syn, lab_syn, feat_syn_snapshot,
                   feat_syn_snapshots, eval_its, eval_scores_train,
                   eval_scores_test, avg_losses, files, checkpoint,
                   sampled_nets, local_scores, net, l, cls, feat_syn_train,
                   lab_syn_train, grads, dataSteps, netSteps>>
    /\ UNCHANGED <<startVars, mapVars, cleanVars, statVars, stepVars, distVars>>

\* a mutation that does not evaluate the initial synthetic data
EvalDue_NotAtZero(i) == EVAL_INTERVAL > 0 /\ i % EVAL_INTERVAL = 0 /\ i > 0

\* if EVAL_INTERVAL > 0 and it % EVAL_INTERVAL == 0
EvalDue(i) == EVAL_INTERVAL > 0 /\ i % EVAL_INTERVAL = 0

\* the evaluation branch is not taken
EvalSkip ==
    /\ pc = "eval_if"
    /\ ~EvalDue(it)
    /\ pc' = "checkpoint"
    /\ UNCHANGED <<rangeNext, it, mem, nextId, feat_syn, lab_syn,
                   feat_syn_snapshot, feat_syn_snapshots, eval_its,
                   eval_scores_train, eval_scores_test, avg_losses, files,
                   checkpoint, sampled_nets, local_scores, net, l, cls,
                   feat_syn_train, lab_syn_train, grads, dataSteps, netSteps>>
    /\ UNCHANGED <<startVars, mapVars, cleanVars, statVars, stepVars, distVars>>

\* eval_its.append(it); the snapshot is taken and appended
EvalBegin ==
    /\ pc = "eval_if"
    /\ EvalDue(it)
    /\ eval_its' = Append(eval_its, it)
    /\ LET snap == DetachClone(mem, feat_syn, nextId)
       IN /\ mem' = snap.m
          /\ feat_syn_snapshot' = snap.t
          /\ feat_syn_snapshots' = Append(feat_syn_snapshots, snap.t)
    /\ nextId' = nextId + 1
    /\ pc' = "eval_vis"
    /\ UNCHANGED <<rangeNext, it, feat_syn, lab_syn, eval_scores_train,
                   eval_scores_test, avg_losses, files, checkpoint,
                   sampled_nets, local_scores, net, l, cls, feat_syn_train,
                   lab_syn_train, grads, dataSteps, netSteps>>
    /\ UNCHANGED <<startVars, mapVars, cleanVars, statVars, stepVars, distVars>>

\* the tiled image grid of the snapshot is saved as it<it>.png
EvalVisualize ==
    /\ pc = "eval_vis"
    /\ files' = WriteFile(files, EvalVisPath(it), PngContent(mem[feat_syn_snapshot]))
    /\ pc' = "eval_sample"
    /\ UNCHANGED <<rangeNext, it, mem, nextId, feat_syn, lab_syn,
                   feat_syn_snapshot, feat_syn_snapshots, eval_its,
                   eval_scores_train, eval_scores_test, avg_losses, checkpoint,
                   sampled_nets, local_scores, net, l, cls, feat_syn_train,
                   lab_syn_train, grads, dataSteps, netSteps>>
    /\ UNCHANGED <<startVars, mapVars, cleanVars, statVars, stepVars, distVars>>

\* the batch of fresh networks of the round
EvalSampleNets ==
    /\ pc = "eval_sample"
    /\ sampled_nets' = [j \in 1..(IF FIX_INIT_WEIGHTS THEN 1 ELSE NUM_SAMPLED_NETS_EVAL) |-> 0]
    /\ local_scores' = 0
    /\ pc' = "eval_train"
    /\ UNCHANGED <<rangeNext, it, mem, nextId, feat_syn, lab_syn,
                   feat_syn_snapshot, feat_syn_snapshots, eval_its,
                   eval_scores_train, eval_scores_test, avg_losses, files,
                   checkpoint, net, l, cls, feat_syn_train, lab_syn_train,
                   grads, dataSteps, netSteps>>
    /\ UNCHANGED <<startVars, mapVars, cleanVars, statVars, stepVars, distVars>>

\* network j is trained for NUM_EVAL_EPOCHS steps on the snapshot and lab_syn;
\* only the parameters of the network are handed to its optimizer
EvalTrainNet ==
    /\ pc = "eval_train"
    /\ \E j \in DOMAIN sampled_nets :
          /\ sampled_nets[j] = 0
          /\ \A k \in 1..(j - 1) : sampled_nets[k] = NUM_EVAL_EPOCHS
          /\ sampled_nets' = [sampled_nets EXCEPT ![j] = NUM_EVAL_EPOCHS]
          /\ pc' = IF j = Len(sampled_nets) THEN "eval_test" ELSE "eval_train"
    /\ UNCHANGED <<rangeNext, it, mem, nextId, feat_syn, lab_syn,
                   feat_syn_snapshot, feat_syn_snapshots, eval_its,
                   eval_scores_train, eval_scores_test, avg_losses, files,
                   checkpoint, local_scores, net, l, cls, feat_syn_train,
                   lab_syn_train, grads, dataSteps, netSteps>>
    /\ UNCHANGED <<startVars, mapVars, cleanVars, statVars, stepVars, distVars>>

\* the next network is scored on the real train and test loaders
EvalTestNet ==
    /\ pc = "eval_test"
    /\ local_scores < Len(sampled_nets)
    /\ local_scores' = local_scores + 1
    /\ pc' = IF local_scores + 1 = Len(sampled_nets) THEN "eval_end" ELSE "eval_test"
    /\ UNCHANGED <<rangeNext, it, mem, nextId, feat_syn, lab_syn,
                   feat_syn_snapshot, feat_syn_snapshots, eval_its,
                   eval_scores_train, eval_scores_test, avg_losses, files,
                   checkpoint, sampled_nets, net, l, cls, feat_syn_train,
                   lab_syn_train, grads, dataSteps, netSteps>>
    /\ UNCHANGED <<startVars, mapVars, cleanVars, statVars, stepVars, distVars>>

\* the mean scores of the round are appended
EvalEnd ==
    /\ pc = "eval_end"
    /\ eval_scores_train' = Append(eval_scores_train, ScoreOf(it))
    /\ eval_scores_test' = Append(eval_scores_test, ScoreOf(it))
    /\ pc' = "checkpoint"
    /\ UNCHANGED <<rangeNext, it, mem, nextId, feat_syn, lab_syn,
                   feat_syn_snapshot, feat_syn_snapshots, eval_its, avg_losses,
                   files, checkpoint, sampled_nets, local_scores, net, l, cls,
                   feat_syn_train, lab_syn_train, grads, dataSteps,
                   netSteps>>
    /\ UNCHANGED <<startVars, mapVars, cleanVars, statVars, stepVars, distVars>>

\* a mutation that saves the checkpoint inside the evaluation branch only
Checkpoint_InEvalBranch ==
    /\ pc = "checkpoint"
    /\ LET freed == Release(Release(mem, checkpoint.feat_syn), checkpoint.lab_syn)
           f == DetachClone(freed, feat_syn, nextId)
           g == DetachClone(f.m, lab_syn, nextId + 1)
           c == [it |-> it, feat_syn |-> f.t, lab_syn |-> g.t]
       IN /\ mem' = g.m
          /\ checkpoint' = c
          /\ files' = IF EvalDue(it)
                      THEN WriteFile(files, CheckpointPath, Serialize(g.m, c))
                      ELSE files
    /\ nextId' = nextId + 2
    /\ pc' = "break_if"
    /\ UNCHANGED <<rangeNext, it, feat_syn, lab_syn, feat_syn_snapshot,
                   feat_syn_snapshots, eval_its, eval_scores_train,
                   eval_scores_test, avg_losses, sampled_nets, local_scores,
                   net, l, cls, feat_syn_train, lab_syn_train, grads,
                   dataSteps, netSteps>>
    /\ UNCHANGED <<startVars, mapVars, cleanVars, statVars, stepVars, distVars>>

\* the checkpoint dict is assembled and saved
Checkpoint ==
    /\ pc = "checkpoint"
    /\ LET freed == Release(Release(mem, checkpoint.feat_syn), checkpoint.lab_syn)
           f == DetachClone(freed, feat_syn, nextId)
           g == DetachClone(f.m, lab_syn, nextId + 1)
           c == [it |-> it, feat_syn |-> f.t, lab_syn |-> g.t]
       IN /\ mem' = g.m
          /\ checkpoint' = c
          /\ files' = WriteFile(files, CheckpointPath, Serialize(g.m, c))
    /\ nextId' = nextId + 2
    /\ pc' = "break_if"
    /\ UNCHANGED <<rangeNext, it, feat_syn, lab_syn, feat_syn_snapshot,
                   feat_syn_snapshots, eval_its, eval_scores_train,
                   eval_scores_test, avg_losses, sampled_nets, local_scores,
                   net, l, cls, feat_syn_train, lab_syn_train, grads,
                   dataSteps, netSteps>>
    /\ UNCHANGED <<startVars, mapVars, cleanVars, statVars, stepVars, distVars>>

\* a mutation that takes the first evaluation for the last iteration
LastIteration_AtFirstInterval(i) == i >= EVAL_INTERVAL

\* the condition of the break that ends the outer loop
LastIteration(i) == i >= NUM_OUTER_LOOPS

\* if it >= NUM_OUTER_LOOPS: break
Break ==
    /\ pc = "break_if"
    /\ LastIteration(it)
    /\ pc' = "done"
    /\ UNCHANGED <<rangeNext, it, mem, nextId, feat_syn, lab_syn,
                   feat_syn_snapshot, feat_syn_snapshots, eval_its,
                   eval_scores_train, eval_scores_test, avg_losses, files,
                   checkpoint, sampled_nets, local_scores, net, l, cls,
                   feat_syn_train, lab_syn_train, grads, dataSteps, netSteps>>
    /\ UNCHANGED <<startVars, mapVars, cleanVars, statVars, stepVars, distVars>>

(***************************************************************************)
(* The matching procedure.                                                 *)
(***************************************************************************)
\* a fresh network and its optimizer
TrainInit ==
    /\ pc = "break_if"
    /\ ~LastIteration(it)
    /\ net' = [id |-> net.id + 1, steps |-> 0]
    /\ l' = 0 /\ cls' = 0
    /\ grads' = <<>>
    /\ dataSteps' = 0
    /\ netSteps' = 0
    /\ pc' = "class_grad"
    /\ UNCHANGED <<rangeNext, it, mem, nextId, feat_syn, lab_syn,
                   feat_syn_snapshot, feat_syn_snapshots, eval_its,
                   eval_scores_train, eval_scores_test, avg_losses, files,
                   checkpoint, sampled_nets, local_scores, feat_syn_train,
                   lab_syn_train>>
    /\ UNCHANGED <<startVars, mapVars, cleanVars, statVars, stepVars, distVars>>

\* real and synthetic gradients of class cls and their distance
ClassGrad ==
    /\ pc = "class_grad"
    /\ cls < IHM_NUM_CLS
    /\ grads' = Append(grads, [cls |-> cls, net |-> net, feat |-> mem[feat_syn]])
    /\ cls' = cls + 1
    /\ pc' = IF cls + 1 = IHM_NUM_CLS THEN "data_step" ELSE "class_grad"
    /\ UNCHANGED <<rangeNext, it, mem, nextId, feat_syn, lab_syn,
                   feat_syn_snapshot, feat_syn_snapshots, eval_its,
                   eval_scores_train, eval_scores_test, avg_losses, files,
                   checkpoint, sampled_nets, local_scores, net, l,
                   feat_syn_train, lab_syn_train, dataSteps, netSteps>>
    /\ UNCHANGED <<startVars, mapVars, cleanVars, statVars, stepVars, distVars>>

\* optimizer_feat.zero_grad(); loss.backward(); optimizer_feat.step()
DataStep ==
    /\ pc = "data_step"
    /\ mem' = DataUpdate(mem, feat_syn)
    /\ dataSteps' = dataSteps + 1
    /\ pc' = "copy"
    /\ UNCHANGED <<rangeNext, it, nextId, feat_syn, lab_syn, feat_syn_snapshot,
                   feat_syn_snapshots, eval_its, eval_scores_train,
                   eval_scores_test, avg_losses, files, checkpoint,
                   sampled_nets, local_scores, net, l, cls, feat_syn_train,
                   lab_syn_train, grads, netSteps>>
    /\ UNCHANGED <<startVars, mapVars, cleanVars, statVars, stepVars, distVars>>

\* feat_syn_train, lab_syn_train = deepcopy(feat_syn.detach()), deepcopy(lab_syn.detach())
CopyForNet ==
    /\ pc = "copy"
    /\ LET freed == Release(Release(mem, feat_syn_train), lab_syn_train)
           f == DetachClone(freed, feat_syn, nextId)
           g == DetachClone(f.m, lab_syn, nextId + 1)
       IN /\ mem' = g.m
          /\ feat_syn_train' = f.t
          /\ lab_syn_train' = g.t
    /\ nextId' = nextId + 2
    /\ pc' = "net_update"
    /\ UNCHANGED <<rangeNext, it, feat_syn, lab_syn, feat_syn_snapshot,
                   feat_syn_snapshots, eval_its, eval_scores_train,
                   eval_scores_test, avg_losses, files, checkpoint,
                   sampled_nets, local_scores, net, l, cls, grads, dataSteps,
                   netSteps>>
    /\ UNCHANGED <<startVars, mapVars, cleanVars, statVars, stepVars, distVars>>

\* for s in range(NUM_UPDT_STEPS_NET): supervised SGD steps of the network on
\* the copy; only the parameters of the network are handed to optimizer_net.
\* Then the inner loop goes to its next round or ends
NetUpdate ==
    /\ pc = "net_update"
    /\ net' = [net EXCEPT !.steps = @ + NUM_UPDT_STEPS_NET]
    /\ netSteps' = netSteps + NUM_UPDT_STEPS_NET
    /\ l' = l + 1
    /\ cls' = 0
    /\ grads' = <<>>
    /\ pc' = IF l + 1 < NUM_INNER_LOOPS THEN "class_grad" ELSE "train_end"
    /\ UNCHANGED <<rangeNext, it, mem, nextId, feat_syn, lab_syn,
                   feat_syn_snapshot, feat_syn_snapshots, eval_its,
                   eval_scores_train, eval_scores_test, avg_losses, files,
                   checkpoint, sampled_nets, local_scores, feat_syn_train,
                   lab_syn_train, dataSteps>>
    /\ UNCHANGED <<startVars, mapVars, cleanVars, statVars, stepVars, distVars>>

\* a mutation that forgets the loss of the iteration
TrainEnd_NoAppend ==
    /\ pc = "train_end"
    /\ pc' = "for"
    /\ UNCHANGED <<rangeNext, it, mem, nextId, feat_syn, lab_syn,
                   feat_syn_snapshot, feat_syn_snapshots, eval_its,
                   eval_scores_train, eval_scores_test, avg_losses, files,
                   checkpoint, sampled_nets, local_scores, net, l, cls,
                   feat_syn_train, lab_syn_train, grads, dataSteps, netSteps>>
    /\ UNCHANGED <<startVars, mapVars, cleanVars, statVars, stepVars, distVars>>

\* loss_avg /= 2 * NUM_INNER_LOOPS; avg_losses.append(loss_avg)
TrainEnd ==
    /\ pc = "train_end"
    /\ avg_losses' = Append(avg_losses, LossOf(it))
    /\ pc' = "for"
    /\ UNCHANGED <<rangeNext, it, mem, nextId, feat_syn, lab_syn,
                   feat_syn_snapshot, feat_syn_snapshots, eval_its,
                   eval_scores_train, eval_scores_test, files, checkpoint,
                   sampled_nets, local_scores, net, l, cls, feat_syn_train,
                   lab_syn_train, grads, dataSteps, netSteps>>
    /\ UNCHANGED <<startVars, mapVars, cleanVars, statVars, stepVars, distVars>>

Next ==
    \/ ForNext \/ EvalSkip \/ EvalBegin \/ EvalVisualize \/ EvalSampleNets
    \/ EvalTrainNet \/ EvalTestNet \/ EvalEnd \/ Checkpoint \/ Break
    \/ TrainInit \/ ClassGrad \/ DataStep \/ CopyForNet \/ NetUpdate \/ TrainEnd

Spec == Init /\ [][Next]_vars

\* main() is one sequential thread that is always scheduled: it takes its next
\* step whenever it has one
FairSpec == Spec /\ WF_vars(Next)

(***************************************************************************)
(* The matching procedure with the network update loop taken one step at   *)
(* a time, for the first outer iterations.                                 *)
(***************************************************************************)
\* last outer iteration that is followed step by step
MaxIts == 2

\* the next iteration of the outer loop, while it is followed
ForNextFollowed ==
    /\ rangeNext <= MaxIts
    /\ ForNext

\* a mutation that leaves the loop one step early
LastNetStep_OneShort(k) == k + 2 >= NUM_UPDT_STEPS_NET

\* s is the last value of range(NUM_UPDT_STEPS_NET)
LastNetStep(k) == k + 1 >= NUM_UPDT_STEPS_NET

\* one pass of the body of "for s in range(NUM_UPDT_STEPS_NET)": forward on
\* feat_syn_train, zero_grad, backward, optimizer_net.step(); after the last
\* pass the inner loop goes to its next round or ends
NetStep ==
    /\ pc = "net_update"
    /\ net' = [net EXCEPT !.steps = @ + 1]
    /\ netSteps' = netSteps + 1
    /\ IF LastNetStep(s)
       THEN /\ s' = 0
            /\ l' = l + 1
            /\ cls' = 0
            /\ grads' = <<>>
            /\ pc' = IF l + 1 < NUM_INNER_LOOPS THEN "class_grad" ELSE "train_end"
       ELSE /\ s' = s + 1
            /\ UNCHANGED <<l, cls, grads, pc>>
    /\ UNCHANGED <<rangeNext, it, mem, nextId, feat_syn, lab_syn,
                   feat_syn_snapshot, feat_syn_snapshots, eval_its,
                   eval_scores_train, eval_scores_test, avg_losses, files,
                   checkpoint, sampled_nets, local_scores, feat_syn_train,
                   lab_syn_train, dataSteps>>
    /\ UNCHANGED <<startVars, mapVars, cleanVars, statVars, distVars>>

NextMatch ==
    \/ ForNextFollowed \/ EvalSkip \/ EvalBegin \/ EvalVisualize \/ EvalSampleNets
    \/ EvalTrainNet \/ EvalTestNet \/ EvalEnd \/ Checkpoint
    \/ TrainInit \/ ClassGrad \/ DataStep \/ CopyForNet \/ NetStep \/ TrainEnd

SpecMatch == Init /\ [][NextMatch]_vars

(***************************************************************************)
(* Startup of main(): argument parsing, output directory, statistics       *)
(* cache, batch preprocessing, episode unification.  The disk outlives the *)
(* process, and main() may be started again on the disk a run left.        *)
(***************************************************************************)
Splits == {"train", "test"}

\* largest number of episode files in a benchmark directory
MaxFiles == 2

\* a file name matching the glob "*_episode*_timeseries.csv", given by the text
\* its two wildcards stand for
RawName(subject, episode) == [subject |-> subject, episode |-> episode]

RawNames == {RawName(<<"1">>, <<"1">>), RawName(<<"2", "0">>, <<"1">>),
             RawName(<<"x">>, <<"1">>)}

DigitValue == [c \in {"0", "1", "2", "3", "4", "5", "6", "7", "8", "9"} |->
                 CASE c = "0" -> 0 [] c = "1" -> 1 [] c = "2" -> 2 [] c = "3" -> 3
                   [] c = "4" -> 4 [] c = "5" -> 5 [] c = "6" -> 6 [] c = "7" -> 7
                   [] c = "8" -> 8 [] c = "9" -> 9]

\* \d+
IsDigits(str) == Len(str) > 0 /\ \A i \in DOMAIN str : str[i] \in DOMAIN DigitValue

\* re.match(r"(\d+)_episode(\d+)_timeseries.csv", basename)
ReMatch(name) == IsDigits(name.subject) /\ IsDigits(name.episode)

\* int(text) of a digit string
RECURSIVE ParseInt(_)
ParseInt(str) ==
    IF Len(str) = 0 THEN 0
    ELSE 10 * ParseInt(SubSeq(str, 1, Len(str) - 1)) + DigitValue[str[Len(str)]]

\* f"{subject_id}_episode{episode_number}_clean.csv"
CleanName(name) == <<"clean.csv", ParseInt(name.subject), ParseInt(name.episode)>>
LabelsCsv == <<"labels.csv", 0, 0>>
AllEpisodesPkl == <<"all_episodes.pkl", 0, 0>>

\* directory listings glob may return: any order, no file twice
Listings ==
    {q \in UNION {[1..n -> RawNames] : n \in 0..MaxFiles} :
        \A i, j \in DOMAIN q : i # j => q[i] # q[j]}

\* paths
OutDirDefault == "./saved_data/<timestamp>"
OutDirExisting == "<outdir that exists>"
OutDirMissing == "<outdir that does not exist>"
StatDir == "./saved_data/stats/"
StatPkl == "./saved_data/stats/ihm_preliminary.pkl"
RawPath(split) == IF split = "train" THEN "./data/mimic3/benchmark/in-hospital-mortality/train/"
                  ELSE "./data/mimic3/benchmark/in-hospital-mortality/test/"
PrePath(split) == IF split = "train" THEN "./data/mimic3/ihm_preliminary/train/"
                  ELSE "./data/mimic3/ihm_preliminary/test/"

Op(op, path) == [op |-> op, path |-> path]

\* the --outdir argument as a path
OutDirOf(a) == IF a.outdir = "existing" THEN OutDirExisting ELSE OutDirMissing

\* contents a preprocessed directory may start with
InitialTestFiles == SUBSET {CleanName(RawName(<<"1">>, <<"1">>)), LabelsCsv, AllEpisodesPkl}
InitialTrainFiles == {{}, {CleanName(RawName(<<"1">>, <<"1">>)), LabelsCsv},
                      {CleanName(RawName(<<"1">>, <<"1">>)), LabelsCsv, AllEpisodesPkl}}

\* a preprocessed directory at the start: absent, or present with some files
InitialDirs(contents) ==
    {[exists |-> FALSE, files |-> {}]} \cup {[exists |-> TRUE, files |-> c] : c \in contents}

\* benchmark directories: any listing with its listfile.csv, and one that
\* lacks listfile.csv
RawDirs ==
    {[files |-> q, listfile |-> TRUE] : q \in Listings}
    \cup {[files |-> <<RawName(<<"1">>, <<"1">>)>>, listfile |-> FALSE]}

\* the loop of main() is idle while the startup sequence is studied
LoopIdle ==
    /\ pc = "startup"
    /\ rangeNext = 0
    /\ it = -1
    /\ mem = <<>>
    /\ nextId = 0
    /\ feat_syn = NoTensor
    /\ lab_syn = NoTensor
    /\ feat_syn_snapshot = NoTensor
    /\ feat_syn_snapshots = <<>>
    /\ eval_its = <<>>
    /\ eval_scores_train = <<>>
    /\ eval_scores_test = <<>>
    /\ avg_losses = <<>>
    /\ files = <<>>
    /\ checkpoint = NoCheckpoint
    /\ sampled_nets = <<>>
    /\ local_scores = 0
    /\ net = [id |-> 0, steps |-> 0]
    /\ l = 0 /\ cls = 0
    /\ feat_syn_train = NoTensor
    /\ lab_syn_train = NoTensor
    /\ grads = <<>>
    /\ dataSteps = 0
    /\ netSteps = 0
    /\ s = 0

InitStartup ==
    /\ LoopIdle
    /\ MapIdle
    /\ CleanIdle
    /\ StatIdle
    /\ DistIdle
    /\ phase = "parse"
    /\ args = [testflag |-> FALSE, outdir |-> "none"]
    /\ err = "none"
    /\ prevAbort = "none"
    /\ \E statDir \in BOOLEAN, tr \in InitialDirs(InitialTrainFiles),
          te \in InitialDirs(InitialTestFiles) :
          /\ dirs = {OutDirExisting}
                    \cup (IF statDir THEN {StatDir} ELSE {})
                    \cup (IF tr.exists THEN {PrePath("train")} ELSE {})
                    \cup (IF te.exists THEN {PrePath("test")} ELSE {})
          /\ outFiles = [sp \in Splits |-> IF sp = "train" THEN tr.files ELSE te.files]
    /\ statsPkl \in BOOLEAN
    /\ statsPkl => StatDir \in dirs
    /\ rawDir \in [Splits -> RawDirs]
    /\ preSplit = "none"
    /\ ts_files = <<>>
    /\ fileIdx = 0
    /\ ran = {}
    /\ io = {}

\* parse_args(): with --testflag the arguments are printed and the process
\* exits with status 0
ParseArgs ==
    /\ phase = "parse"
    /\ \E tf \in BOOLEAN, od \in {"none", "existing", "missing"} :
          /\ args' = [testflag |-> tf, outdir |-> od]
          /\ phase' = IF tf THEN "exit0" ELSE "outdir"
    /\ UNCHANGED <<err, prevAbort, dirs, statsPkl, rawDir, outFiles, preSplit,
                   ts_files, fileIdx, ran, io>>
    /\ UNCHANGED <<mainVars, mapVars, cleanVars, statVars, stepVars, distVars>>

\* a mutation that creates a supplied --outdir that does not exist
ResolveOutDir_Create ==
    /\ phase = "outdir"
    /\ IF args.outdir = "none"
       THEN /\ dirs' = dirs \cup {OutDirDefault}
            /\ io' = io \cup {Op("mkdir", OutDirDefault)}
            /\ phase' = "stat_dir"
            /\ err' = err
       ELSE /\ dirs' = dirs \cup {OutDirOf(args)}
            /\ io' = io \cup {Op("mkdir", OutDirOf(args))}
            /\ phase' = "stat_dir"
            /\ err' = err
    /\ UNCHANGED <<args, prevAbort, statsPkl, rawDir, outFiles, preSplit,
                   ts_files, fileIdx, ran>>
    /\ UNCHANGED <<mainVars, mapVars, cleanVars, statVars, stepVars, distVars>>

\* OUT_DIR: a fresh timestamped directory, or the supplied one, which must exist
ResolveOutDir ==
    /\ phase = "outdir"
    /\ IF args.outdir = "none"
       THEN /\ dirs' = dirs \cup {OutDirDefault}
            /\ io' = io \cup {Op("mkdir", OutDirDefault)}
            /\ phase' = "stat_dir"
            /\ err' = err
       ELSE /\ io' = io \cup {Op("stat", OutDirOf(args))}
            /\ dirs' = dirs
            /\ IF OutDirOf(args) \notin dirs
               THEN phase' = "error" /\ err' = "ValueError: Not a valid output dir"
               ELSE phase' = "stat_dir" /\ err' = err
    /\ UNCHANGED <<args, prevAbort, statsPkl, rawDir, outFiles, preSplit,
                   ts_files, fileIdx, ran>>
    /\ UNCHANGED <<mainVars, mapVars, cleanVars, statVars, stepVars, distVars>>

\* if not os.path.exists(STAT_PKL_DIR): os.makedirs(STAT_PKL_DIR)
MakeStatDir ==
    /\ phase = "stat_dir"
    /\ dirs' = dirs \cup {StatDir}
    /\ io' = io \cup {Op("stat", StatDir)}
              \cup (IF StatDir \in dirs THEN {} ELSE {Op("mkdir", StatDir)})
    /\ phase' = "stats"
    /\ UNCHANGED <<args, err, prevAbort, statsPkl, rawDir, outFiles, preSplit,
                   ts_files, fileIdx, ran>>
    /\ UNCHANGED <<mainVars, mapVars, cleanVars, statVars, stepVars, distVars>>

\* os.path.exists(stat_pkl_path) and LOAD_FROM_SAVED
StatsCached == statsPkl

\* the cached statistics are loaded
StatsLoad ==
    /\ phase = "stats"
    /\ StatsCached
    /\ io' = io \cup {Op("stat", StatPkl), Op("read", StatPkl)}
    /\ phase' = "pre_if"
    /\ UNCHANGED <<args, err, prevAbort, dirs, statsPkl, rawDir, outFiles,
                   preSplit, ts_files, fileIdx, ran>>
    /\ UNCHANGED <<mainVars, mapVars, cleanVars, statVars, stepVars, distVars>>

\* compute_feature_statistics on the train benchmark directory, then the
\* cache is written; pd.concat raises on an empty list of files
StatsCompute ==
    /\ phase = "stats"
    /\ ~StatsCached
    /\ ran' = ran \cup {<<"compute_feature_statistics", "train">>}
    /\ IF rawDir["train"].files = <<>>
       THEN /\ io' = io \cup {Op("stat", StatPkl), Op("list", RawPath("train"))}
            /\ phase' = "error"
            /\ err' = "ValueError: No objects to concatenate"
            /\ statsPkl' = statsPkl
       ELSE /\ io' = io \cup {Op("stat", StatPkl), Op("list", RawPath("train")),
                               Op("read", RawPath("train")), Op("write", StatPkl)}
            /\ phase' = "pre_if"
            /\ err' = err
            /\ statsPkl' = TRUE
    /\ UNCHANGED <<args, prevAbort, dirs, rawDir, outFiles, preSplit, ts_files,
                   fileIdx>>
    /\ UNCHANGED <<mainVars, mapVars, cleanVars, statVars, stepVars, distVars>>

\* a mutation that decides per split: preprocess when the train directory is empty
PreprocessDue_TrainDir == outFiles["train"] = {}

\* not os.listdir("./data/mimic3/ihm_preliminary/test/")
PreprocessDue == outFiles["test"] = {}

\* if not os.listdir(<test directory>): os.listdir raises when the directory
\* does not exist
PreprocessIf ==
    /\ phase = "pre_if"
    /\ io' = io \cup {Op("list", PrePath("test"))}
    /\ IF PrePath("test") \notin dirs
       THEN /\ phase' = "error"
            /\ err' = "FileNotFoundError: ./data/mimic3/ihm_preliminary/test/"
            /\ preSplit' = preSplit
       ELSE IF PreprocessDue
       THEN /\ phase' = "pass_begin"
            /\ preSplit' = "train"
            /\ err' = err
       ELSE /\ phase' = "unify_if"
            /\ UNCHANGED <<preSplit, err>>
    /\ UNCHANGED <<args, prevAbort, dirs, statsPkl, rawDir, outFiles, ts_files,
                   fileIdx, ran>>
    /\ UNCHANGED <<mainVars, mapVars, cleanVars, statVars, stepVars, distVars>>

(***************************************************************************)
(* preprocess_ihm_timeseries_files(ts_dir, output_dir, ...)                *)
(***************************************************************************)
\* os.makedirs(output_dir, exist_ok=True); ts_files = glob(...)
PassBegin ==
    /\ phase = "pass_begin"
    /\ ran' = ran \cup {<<"preprocess_ihm_timeseries_files", preSplit>>}
    /\ dirs' = dirs \cup {PrePath(preSplit)}
    /\ ts_files' = rawDir[preSplit].files
    /\ fileIdx' = 1
    /\ io' = io \cup {Op("mkdir", PrePath(preSplit)), Op("list", RawPath(preSplit))}
    /\ phase' = "pass_loop"
    /\ UNCHANGED <<args, err, prevAbort, statsPkl, rawDir, outFiles, preSplit>>
    /\ UNCHANGED <<mainVars, mapVars, cleanVars, statVars, stepVars, distVars>>

\* one round of the loop over ts_files: the name is parsed, the episode is
\* cleaned and written; a name that does not parse raises
PassFile ==
    /\ phase = "pass_loop"
    /\ fileIdx <= Len(ts_files)
    /\ IF ~ReMatch(ts_files[fileIdx])
       THEN /\ phase' = "error"
            /\ err' = "ValueError: Error parsing csv file"
            /\ UNCHANGED <<outFiles, fileIdx, io>>
       ELSE /\ outFiles' = [outFiles EXCEPT ![preSplit] = @ \cup {CleanName(ts_files[fileIdx])}]
            /\ fileIdx' = fileIdx + 1
            /\ io' = io \cup {Op("read", RawPath(preSplit)), Op("write", PrePath(preSplit))}
            /\ UNCHANGED <<phase, err>>
    /\ UNCHANGED <<args, prevAbort, dirs, statsPkl, rawDir, preSplit, ts_files, ran>>
    /\ UNCHANGED <<mainVars, mapVars, cleanVars, statVars, stepVars, distVars>>

\* after the loop: listfile.csv is read and republished as labels.csv; the
\* pass returns, and main() goes on with the test split or with unification
PassLabels ==
    /\ phase = "pass_loop"
    /\ fileIdx > Len(ts_files)
    /\ io' = io \cup {Op("read", RawPath(preSplit))}
              \cup (IF rawDir[preSplit].listfile THEN {Op("write", PrePath(preSplit))} ELSE {})
    /\ IF ~rawDir[preSplit].listfile
       THEN /\ phase' = "error"
            /\ err' = "FileNotFoundError: listfile.csv"
            /\ UNCHANGED <<outFiles, preSplit>>
       ELSE /\ outFiles' = [outFiles EXCEPT ![preSplit] = @ \cup {LabelsCsv}]
            /\ err' = err
            /\ IF preSplit = "train"
               THEN phase' = "pass_begin" /\ preSplit' = "test"
               ELSE phase' = "unify_if" /\ preSplit' = preSplit
    /\ UNCHANGED <<args, prevAbort, dirs, statsPkl, rawDir, ts_files, fileIdx, ran>>
    /\ UNCHANGED <<mainVars, mapVars, cleanVars, statVars, stepVars, distVars>>

\* not os.path.exists(<test directory>/all_episodes.pkl)
UnifyDue == AllEpisodesPkl \notin outFiles["test"]

\* if not os.path.exists(...all_episodes.pkl)
UnifyIf ==
    /\ phase = "unify_if"
    /\ io' = io \cup {Op("stat", PrePath("test"))}
    /\ IF UnifyDue
       THEN phase' = "unify" /\ preSplit' = "train"
       ELSE phase' = "datasets" /\ preSplit' = preSplit
    /\ UNCHANGED <<args, err, prevAbort, dirs, statsPkl, rawDir, outFiles,
                   ts_files, fileIdx, ran>>
    /\ UNCHANGED <<mainVars, mapVars, cleanVars, statVars, stepVars, distVars>>

\* what unify_ihm_episodes(dir) needs: the directory and its labels.csv
UnifyInputsComplete(split) == PrePath(split) \in dirs /\ LabelsCsv \in outFiles[split]

\* unify_ihm_episodes(dir): the clean episodes and labels.csv of the directory
\* are merged into <dir>/all_episodes.pkl.  What it does on a directory that
\* lacks them is not known: it may raise, or write an archive all the same
Unify ==
    /\ phase = "unify"
    /\ ran' = ran \cup {<<"unify_ihm_episodes", preSplit>>}
    /\ io' = io \cup {Op("read", PrePath(preSplit))}
    /\ \E ok \in BOOLEAN :
          /\ UnifyInputsComplete(preSplit) => ok
          /\ IF ok
             THEN /\ outFiles' = [outFiles EXCEPT ![preSplit] = @ \cup {AllEpisodesPkl}]
                  /\ dirs' = dirs \cup {PrePath(preSplit)}
                  /\ err' = err
                  /\ IF preSplit = "train"
                     THEN phase' = "unify" /\ preSplit' = "test"
                     ELSE phase' = "datasets" /\ preSplit' = preSplit
             ELSE /\ phase' = "error"
                  /\ err' = "unify_ihm_episodes failed"
                  /\ UNCHANGED <<outFiles, dirs, preSplit>>
    /\ UNCHANGED <<args, prevAbort, statsPkl, rawDir, ts_files, fileIdx>>
    /\ UNCHANGED <<mainVars, mapVars, cleanVars, statVars, stepVars, distVars>>

\* the process has ended (exit 0, uncaught exception) or startup is complete;
\* main() is started again on the disk as it is now
Rerun ==
    /\ phase \in {"exit0", "error", "datasets"}
    /\ prevAbort' = IF phase = "error" /\ err = "ValueError: Error parsing csv file"
                    THEN preSplit ELSE "none"
    /\ phase' = "parse"
    /\ args' = [testflag |-> FALSE, outdir |-> "none"]
    /\ err' = "none"
    /\ preSplit' = "none"
    /\ ts_files' = <<>>
    /\ fileIdx' = 0
    /\ ran' = {}
    /\ io' = {}
    /\ UNCHANGED <<dirs, statsPkl, rawDir, outFiles>>
    /\ UNCHANGED <<mainVars, mapVars, cleanVars, statVars, stepVars, distVars>>

NextStartup ==
    \/ ParseArgs \/ ResolveOutDir \/ MakeStatDir \/ StatsLoad \/ StatsCompute
    \/ PreprocessIf \/ PassBegin \/ PassFile \/ PassLabels \/ UnifyIf \/ Unify
    \/ Rerun

SpecStartup == InitStartup /\ [][NextStartup]_vars

Pre(split) == <<"preprocess_ihm_timeseries_files", split>>
Uni(split) == <<"unify_ihm_episodes", split>>
Stats == <<"compute_feature_statistics", "train">>

\* the split has cleaned outputs: a clean episode or labels.csv
CleanedOutputsExist(split) ==
    \E f \in outFiles[split] : f[1] \in {"clean.csv", "labels.csv"}

(***************************************************************************)
(* C4, as claimed: each of the steps is skipped exactly when the output of *)
(* its own split exists, so that both splits have their cleaned episodes,  *)
(* labels.csv and all_episodes.pkl when the datasets are constructed.      *)
(***************************************************************************)
C4_PerSplitSkip ==
    /\ phase = "pass_begin" => ~CleanedOutputsExist(preSplit)
    /\ phase = "unify_if" =>
          \A sp \in Splits : Pre(sp) \notin ran => CleanedOutputsExist(sp)
    /\ phase = "unify" => AllEpisodesPkl \notin outFiles[preSplit]
    /\ phase = "datasets" =>
          \A sp \in Splits : /\ CleanedOutputsExist(sp)
                              /\ LabelsCsv \in outFiles[sp]
                              /\ AllEpisodesPkl \in outFiles[sp]

(***************************************************************************)
(* C4, amended: statistics are computed exactly when the cache file is     *)
(* absent; the preprocessing driver runs, for train and then test, exactly *)
(* when the test output directory exists and is empty (a missing test      *)
(* directory is a fatal error), and unification runs, for train and then   *)
(* test, exactly when the archive of the test split is absent; the train   *)
(* directory is never looked at.  When the datasets are constructed the    *)
(* statistics cache exists, and unification has run for both splits or the *)
(* archive of the test split was there already.                            *)
(***************************************************************************)
C4_Inv ==
    /\ Pre("test") \in ran => Pre("train") \in ran
    /\ Uni("test") \in ran => Uni("train") \in ran
    /\ phase \in {"unify_if", "unify", "datasets"} =>
          (Pre("train") \in ran <=> Pre("test") \in ran)
    /\ phase = "datasets" =>
          /\ statsPkl
          /\ Uni("train") \in ran <=> Uni("test") \in ran
          /\ Uni("test") \notin ran => AllEpisodesPkl \in outFiles["test"]

C4_Step ==
    /\ phase = "stats" => (Stats \in ran' <=> ~statsPkl)
    /\ phase = "pre_if" =>
          /\ PrePath("test") \notin dirs => phase' = "error"
          /\ (PrePath("test") \in dirs /\ outFiles["test"] = {})
                => phase' = "pass_begin" /\ preSplit' = "train"
          /\ (PrePath("test") \in dirs /\ outFiles["test"] # {}) => phase' = "unify_if"
    /\ (phase = "pass_loop" /\ preSplit = "train" /\ phase' \notin {"pass_loop", "error"})
          => phase' = "pass_begin" /\ preSplit' = "test"
    /\ phase = "unify_if" =>
          IF AllEpisodesPkl \in outFiles["test"]
          THEN phase' = "datasets"
          ELSE phase' = "unify" /\ preSplit' = "train"

C4_TestSplitSentinels ==
    /\ []C4_Inv
    /\ [][C4_Step]_vars

\* the test sentinels let startup skip both steps although train has nothing
C4_Witness ==
    /\ phase = "datasets"
    /\ Pre("train") \notin ran /\ Uni("train") \notin ran
    /\ outFiles["train"] = {}
    /\ Stats \in ran

(***************************************************************************)
(* C5: with --testflag the process exits with status 0, and with a         *)
(* supplied --outdir that does not exist it fails, in both cases before    *)
(* any directory is created and before the statistics cache, the           *)
(* benchmark data or the preprocessed data are read or written.            *)
(***************************************************************************)
C5_Inv ==
    /\ (args.testflag /\ phase # "parse")
          => phase = "exit0" /\ err = "none" /\ io = {} /\ ran = {}
    /\ (~args.testflag /\ args.outdir = "missing" /\ phase \notin {"parse", "outdir"})
          => /\ phase = "error"
             /\ err = "ValueError: Not a valid output dir"
             /\ io = {Op("stat", OutDirMissing)}
             /\ ran = {}
             /\ OutDirMissing \notin dirs

C5_Step ==
    (args'.testflag \/ args'.outdir = "missing")
       => UNCHANGED <<dirs, statsPkl, rawDir, outFiles>>

C5_ConfigBeforeSideEffects ==
    /\ []C5_Inv
    /\ [][C5_Step]_vars

C5_Witness ==
    /\ phase = "error"
    /\ err = "ValueError: Not a valid output dir"
    /\ args = [testflag |-> FALSE, outdir |-> "missing"]
    /\ ~statsPkl /\ StatDir \notin dirs

(***************************************************************************)
(* C10: a file name that does not parse aborts the whole preprocessing     *)
(* pass: the pass ends with the error at that file, no later file is       *)
(* cleaned and labels.csv is not written; a pass never returns normally    *)
(* with such a file skipped; and the outputs an aborted pass leaves behind *)
(* are not taken for a finished pass by the next run.                      *)
(***************************************************************************)
C10_MalformedAbortsPass ==
    /\ (phase = "error" /\ err = "ValueError: Error parsing csv file")
          => /\ fileIdx <= Len(ts_files) /\ ~ReMatch(ts_files[fileIdx])
             /\ preSplit = "test"
                   => /\ outFiles["test"] = {CleanName(ts_files[k]) : k \in 1..(fileIdx - 1)}
                      /\ LabelsCsv \notin outFiles["test"]
    /\ \A sp \in Splits :
          (Pre(sp) \in ran /\ phase \in {"unify_if", "unify", "datasets"})
             => \A k \in DOMAIN rawDir[sp].files : ReMatch(rawDir[sp].files[k])
    /\ (prevAbort # "none" /\ phase \in {"unify_if", "unify", "datasets"})
          => Pre(prevAbort) \in ran

(***************************************************************************)
(* map_mimic3_benchmark_categorical_label.  A text is a sequence of        *)
(* characters.                                                             *)
(***************************************************************************)
UpperCase == <<"A", "B", "C", "D", "E", "F", "G", "H", "I", "J", "K", "L", "M", "N", "O", "P", "Q", "R", "S", "T", "U", "V", "W", "X", "Y", "Z">>
LowerCase == <<"a", "b", "c", "d", "e", "f", "g", "h", "i", "j", "k", "l", "m", "n", "o", "p", "q", "r", "s", "t", "u", "v", "w", "x", "y", "z">>

LowerChar(c) ==
    IF \E i \in DOMAIN UpperCase : UpperCase[i] = c
    THEN LowerCase[CHOOSE i \in DOMAIN UpperCase : UpperCase[i] = c]
    ELSE c

\* value.lower()
Lower(str) == [i \in DOMAIN str |-> LowerChar(str[i])]

\* substring in text
Contains(sub, str) ==
    \E i \in 0..(Len(str) - Len(sub)) : SubSeq(str, i + 1, i + Len(sub)) = sub

\* substring_mapping: per variable the (substring, label) pairs in dict order
substring_mapping(name) ==
    CASE name = "glascow_coma_scale_eye_opening" ->
           << <<<<"r", "e", "s", "p", "o", "n">>, 1>>, <<<<"p", "a", "i", "n">>, 2>>,
              <<<<"s", "p", "e", "e", "c", "h">>, 3>>, <<<<"s", "p", "o", "n", "t">>, 4>> >>
      [] name = "glascow_coma_scale_motor_response" ->
           << <<<<"r", "e", "s", "p", "o", "n">>, 1>>, <<<<"e", "x", "t", "e", "n", "s">>, 2>>,
              <<<<"f", "l", "e", "x">>, 3>>, <<<<"w", "i", "t", "h", "d">>, 4>>,
              <<<<"p", "a", "i", "n">>, 5>>, <<<<"o", "b", "e", "y">>, 6>> >>
      [] name = "glascow_coma_scale_verbal_response" ->
           << <<<<"r", "e", "s", "p", "o", "n">>, 1>>, <<<<"t", "r", "a", "c", "h">>, 1>>,
              <<<<"i", "n", "c", "o", "m", "p">>, 2>>, <<<<"i", "n", "a", "p">>, 3>>,
              <<<<"c", "o", "n", "f">>, 4>>, <<<<"o", "r", "i", "e", "n", "t">>, 5>> >>

SubstringNames == {"glascow_coma_scale_eye_opening", "glascow_coma_scale_motor_response",
                   "glascow_coma_scale_verbal_response"}

CategoricalNames == SubstringNames \cup {"capillary_refill_rate", "glascow_coma_scale_total"}

\* int(value) of a float given in tenths: truncation towards zero
IntOfTenths(x) == IF x >= 0 THEN x \div 10 ELSE -((-x) \div 10)

\* int(value): of a float, its integral part; of a text, the number it
\* spells, and only digits spell one in the texts considered here
IntOf(v) ==
    IF v.kind = "num" THEN Num(IntOfTenths(v.num))
    ELSE IF IsDigits(v.chars) THEN Num(ParseInt(v.chars))
    ELSE Raised("ValueError")

\* a mutation in which the last pair that matches decides
FirstMatch_LastWins(pairs, str) ==
    LET hits == {i \in DOMAIN pairs : Contains(pairs[i][1], Lower(str))}
    IN IF hits = {} THEN Num(0)
       ELSE Num(pairs[CHOOSE i \in hits : \A j \in hits : j <= i][2])

\* the loop over substring_mapping[name].items(): the first pair whose
\* substring the lowered text contains decides
FirstMatch(pairs, str) ==
    LET hits == {i \in DOMAIN pairs : Contains(pairs[i][1], Lower(str))}
    IN IF hits = {} THEN Num(0)
       ELSE Num(pairs[CHOOSE i \in hits : \A j \in hits : i <= j][2])

map_mimic3_benchmark_categorical_label(name, value) ==
    IF IsNa(value) THEN NaN
    ELSE IF name = "capillary_refill_rate"
    THEN (LET n == IntOf(value) IN IF n.kind = "num" THEN Num(n.num + 1) ELSE n)
    ELSE IF name = "glascow_coma_scale_total"
    THEN (LET n == IntOf(value) IN IF n.kind = "num" THEN Num(n.num - 2) ELSE n)
    ELSE IF name \notin SubstringNames THEN Raised("KeyError")
    ELSE IF value.kind # "str" THEN Raised("AttributeError")
    ELSE FirstMatch(substring_mapping(name), value.chars)

\* longest raw text, in words
MaxWords == 2

\* words raw texts are made of
Words == {<<"O", "r", "i", "e", "n", "t", "e", "d">>,
          <<"O", "R", "I", "E", "N", "T", "E", "D">>,
          <<"D", "i", "s", "o", "r", "i", "e", "n", "t", "e", "d">>,
          <<"C", "o", "n", "f", "u", "s", "e", "d">>,
          <<"N", "o", " ", "R", "e", "s", "p", "o", "n", "s", "e">>,
          <<"E", "T", "/", "T", "r", "a", "c", "h">>,
          <<"I", "n", "c", "o", "m", "p", " ", "s", "o", "u", "n", "d", "s">>,
          <<"I", "n", "a", "p", "p", "r", "o", "p", " ", "w", "o", "r", "d", "s">>,
          <<"S", "p", "o", "n", "t", "a", "n", "e", "o", "u", "s", "l", "y">>,
          <<"O", "b", "e", "y", "s", " ", "C", "o", "m", "m", "a", "n", "d", "s">>,
          <<"5", " ">>}

RECURSIVE Concat(_)
Concat(ws) == IF Len(ws) = 0 THEN <<>> ELSE Head(ws) \o Concat(Tail(ws))

RawTexts == {Concat(ws) : ws \in UNION {[1..n -> Words] : n \in 0..MaxWords}}

\* floats, in tenths
RawNumbers == {0, 10, 30, 150}

RawValues == {NaN} \cup {Str(x) : x \in RawTexts} \cup {Num(x) : x \in RawNumbers}

InitMap ==
    /\ LoopIdle
    /\ StartupDone
    /\ CleanIdle
    /\ StatIdle
    /\ DistIdle
    /\ mPhase = "call"
    /\ mName \in CategoricalNames
    /\ mValue \in RawValues
    /\ mResult = NaN

MapCall ==
    /\ mPhase = "call"
    /\ mResult' = map_mimic3_benchmark_categorical_label(mName, mValue)
    /\ mPhase' = "return"
    /\ UNCHANGED <<mName, mValue>>
    /\ UNCHANGED <<mainVars, startVars, cleanVars, statVars, stepVars, distVars>>

NextMap == MapCall

SpecMap == InitMap /\ [][NextMap]_vars

Orient == <<"o", "r", "i", "e", "n", "t">>

\* the substrings that stand before "orient" in the verbal-response table
BeforeOrient == {<<"r", "e", "s", "p", "o", "n">>, <<"t", "r", "a", "c", "h">>, <<"i", "n", "c", "o", "m", "p">>, <<"i", "n", "a", "p">>, <<"c", "o", "n", "f">>}

(***************************************************************************)
(* C8, as claimed: every verbal-response text that contains "orient" in    *)
(* any letter case maps to 5, and a missing value maps to the missing      *)
(* sentinel for every categorical variable.                                *)
(***************************************************************************)
C8_OrientAlwaysFive ==
    mPhase = "return" =>
       /\ (mName = "glascow_coma_scale_verbal_response" /\ mValue.kind = "str"
              /\ Contains(Orient, Lower(mValue.chars)))
             => mResult = Num(5)
       /\ IsNa(mValue) => IsNa(mResult)

(***************************************************************************)
(* C8, amended: a verbal-response text that contains "orient" in any       *)
(* letter case and none of the substrings that stand before it in the      *)
(* table (respon, trach, incomp, inap, conf) maps to 5; one that contains  *)
(* an earlier substring too maps to a code of 1 to 4, never to 5; a        *)
(* missing value maps to the missing sentinel for every categorical        *)
(* variable.                                                               *)
(***************************************************************************)
C8_OrientFirstMatch ==
    mPhase = "return" =>
       /\ (mName = "glascow_coma_scale_verbal_response" /\ mValue.kind = "str"
              /\ Contains(Orient, Lower(mValue.chars)))
             => IF \E b \in BeforeOrient : Contains(b, Lower(mValue.chars))
                THEN mResult.kind = "num" /\ mResult.num \in 1..4
                ELSE mResult = Num(5)
       /\ IsNa(mValue) => IsNa(mResult)

C8_Witness ==
    /\ mPhase = "return"
    /\ mName = "glascow_coma_scale_verbal_response"
    /\ mValue = Str(<<"5", " ", "O", "R", "I", "E", "N", "T", "E", "D">>)
    /\ mResult = Num(5)

(***************************************************************************)
(* preprocess_ihm_timeseires, followed for one feature column.  The        *)
(* columns are treated independently of each other, so that one column     *)
(* beside "hours" shows what happens to each.                              *)
(***************************************************************************)
Weight == "weight"
Verbal == "glascow_coma_scale_verbal_response"

\* feature_dict: mimic3_benchmark_variable_dict
FeatureType(name) == IF name \in CategoricalNames THEN "categorical" ELSE "continuous"
HasBound(name) == name = Weight
Bound(name) == <<0, 300>>

\* normal_value_dict: the training averages and modes handed in by the caller
normal_value_dict(name) == IF name = Weight THEN Num(81) ELSE Num(1)

\* the window of an episode, in hours
Window == 48

\* np.arange(start, stop, step) for a positive step
Arange(start, stop, step) ==
    [k \in 1..((stop - start + step - 1) \div step) |-> start + (k - 1) * step]

\* a mutation that leaves the stop of the edges at the window
HourBins_StopAtWindow(rate) == Arange(0, Window, rate)

\* hour_bins
HourBins(rate) == Arange(0, Window + rate, rate)

\* pd.cut(hours, bins, labels=False, right=False): the index of the
\* half-open bin [bins[i], bins[i+1]) the hour lies in, missing outside
Cut(hours, bins) ==
    LET hits == {i \in 1..(Len(bins) - 1) : bins[i] <= hours /\ hours < bins[i + 1]}
    IN IF hits = {} THEN NaN ELSE Num((CHOOSE i \in hits : TRUE) - 1)

\* a mutation that nulls the values on the bound as well
OutOfBound_Inclusive(name, v) ==
    /\ HasBound(name)
    /\ v.kind = "num"
    /\ (v.num <= Bound(name)[1] \/ v.num >= Bound(name)[2])

\* (df[name] < lo) | (df[name] > hi): a missing value compares false
OutOfBound(name, v) ==
    /\ HasBound(name)
    /\ v.kind = "num"
    /\ (v.num < Bound(name)[1] \/ v.num > Bound(name)[2])

\* df.groupby("hour_bin").last(): per bin that has rows, the last value of
\* the column that is not missing, in row order; missing when all are
GroupLast(rows, bins, b) ==
    LET hits == {i \in DOMAIN rows : Cut(rows[i].hours, bins) = Num(b) /\ ~IsNa(rows[i].v)}
    IN IF hits = {} THEN NaN
       ELSE rows[CHOOSE i \in hits : \A j \in hits : j <= i].v

\* the index of the grouped frame: the bins that have rows
GroupKeys(rows, bins) ==
    {Cut(rows[i].hours, bins).num : i \in {j \in DOMAIN rows : ~IsNa(Cut(rows[j].hours, bins))}}

\* df.reindex(labels): a row per label, the grouped row whose index equals
\* the label, all missing when there is none
Reindex(rows, bins, labels) ==
    [k \in DOMAIN labels |->
        [label |-> labels[k],
         v |-> IF labels[k] \in GroupKeys(rows, bins)
               THEN GroupLast(rows, bins, labels[k]) ELSE NaN]]

\* hour_bins[:-1]
AllButLast(seq) == SubSeq(seq, 1, Len(seq) - 1)

\* df.ffill(): the last value at or above the row that is not missing
FFill(rows, k) ==
    LET hits == {i \in 1..k : ~IsNa(rows[i].v)}
    IN IF hits = {} THEN NaN
       ELSE rows[CHOOSE i \in hits : \A j \in hits : j <= i].v

\* a mutation that takes the mask after the forward fill
MaskOf_AfterFill(rows, k) == IF IsNa(FFill(rows, k)) THEN 0 ELSE 1

\* df.notna().astype(int), taken before any fill
MaskOf(rows, k) == IF IsNa(rows[k].v) THEN 0 ELSE 1

\* most rows of a raw episode table
MaxRows == 2

\* hours of raw rows: before the window, in it, and at its end
RawHours == {-1, 0, 10, 47, 48}

\* resample rates: the divisors of the window, and one that is none
Rates == {1, 2, 3, 5, 8, 12, 24, 48}

\* raw cells of the column
RawCells(name) ==
    IF name = Weight THEN {NaN, Num(50), Num(300), Num(310)}
    ELSE {NaN, Str(<<"5", " ", "O", "r", "i", "e", "n", "t", "e", "d">>), Str(<<"4", " ", "C", "o", "n", "f", "u", "s", "e", "d">>)}

InitClean ==
    /\ LoopIdle
    /\ StartupDone
    /\ MapIdle
    /\ StatIdle
    /\ DistIdle
    /\ cPhase = "bound"
    /\ cName \in {Weight, Verbal}
    /\ cRate \in Rates
    /\ cRaw \in UNION {[1..n -> [hours : RawHours, v : RawCells(cName)]] : n \in 0..MaxRows}
    /\ df = cRaw

\* get rid of out-of-boundary values
BoundNull ==
    /\ cPhase = "bound"
    /\ df' = [i \in DOMAIN df |->
                 IF OutOfBound(cName, df[i].v) THEN [df[i] EXCEPT !.v = NaN] ELSE df[i]]
    /\ cPhase' = "resample"
    /\ UNCHANGED <<cName, cRate, cRaw>>
    /\ UNCHANGED <<mainVars, startVars, mapVars, statVars, stepVars, distVars>>

\* resample: cut, group, reindex, drop "hours"
Resample ==
    /\ cPhase = "resample"
    /\ LET hour_bins == HourBins(cRate)
       IN df' = Reindex(df, hour_bins, AllButLast(hour_bins))
    /\ cPhase' = "categorical"
    /\ UNCHANGED <<cName, cRate, cRaw>>
    /\ UNCHANGED <<mainVars, startVars, mapVars, statVars, stepVars, distVars>>

\* modify categorical labels into integers
MapCategorical ==
    /\ cPhase = "categorical"
    /\ LET mapped == [k \in DOMAIN df |->
                         IF FeatureType(cName) = "categorical"
                         THEN map_mimic3_benchmark_categorical_label(cName, df[k].v)
                         ELSE df[k].v]
       IN IF \E k \in DOMAIN df : mapped[k].kind = "raised"
          THEN cPhase' = "raised" /\ df' = df
          ELSE /\ cPhase' = "impute"
               /\ df' = [k \in DOMAIN df |-> [df[k] EXCEPT !.v = mapped[k]]]
    /\ UNCHANGED <<cName, cRate, cRaw>>
    /\ UNCHANGED <<mainVars, startVars, mapVars, statVars, stepVars, distVars>>

\* take the mask, forward fill, fill what is left with the normal value,
\* put the mask beside the column
Impute ==
    /\ cPhase = "impute"
    /\ df' = [k \in DOMAIN df |->
                 [label |-> df[k].label,
                  v |-> IF IsNa(FFill(df, k)) THEN normal_value_dict(cName) ELSE FFill(df, k),
                  mask |-> MaskOf(df, k)]]
    /\ cPhase' = "return"
    /\ UNCHANGED <<cName, cRate, cRaw>>
    /\ UNCHANGED <<mainVars, startVars, mapVars, statVars, stepVars, distVars>>

NextClean ==
    \/ BoundNull
    \/ Resample
    \/ MapCategorical
    \/ Impute

SpecClean == InitClean /\ [][NextClean]_vars

\* the raw rows whose value is there and within the bounds of the column
PresentRows == {i \in DOMAIN cRaw : ~IsNa(cRaw[i].v) /\ ~OutOfBound(cName, cRaw[i].v)}

\* the column has one present value, and it lies in hour bin b of an
\* hourly resampling
OnlyPresentIn(b) ==
    /\ cRate = 1
    /\ b \in 0..(Window - 1)
    /\ Cardinality(PresentRows) = 1
    /\ \A i \in PresentRows : cRaw[i].hours = b

\* the value the column holds for raw row i once it is cleaned
CleanedValue(i) ==
    IF FeatureType(cName) = "categorical"
    THEN map_mimic3_benchmark_categorical_label(cName, cRaw[i].v)
    ELSE cRaw[i].v

(***************************************************************************)
(* C6, as claimed: with an hourly resampling, the mask of a column whose   *)
(* only present raw value lies in hour bin b is 1 at bin b and at every    *)
(* later bin and 0 at every earlier bin.                                   *)
(***************************************************************************)
C6_MaskCoversForwardFill ==
    cPhase = "return" =>
       \A b \in 0..(Window - 1) : OnlyPresentIn(b) =>
          \A k \in DOMAIN df : df[k].mask = (IF k - 1 >= b THEN 1 ELSE 0)

(***************************************************************************)
(* C6, amended: with an hourly resampling, the mask of a column whose only *)
(* present (and within-bound) raw value lies in hour bin b is 1 at bin b   *)
(* alone; it is 0 at every later bin, which holds the forward-filled       *)
(* value, and 0 at every earlier bin, which holds the normal value.        *)
(***************************************************************************)
C6_MaskOnlyWhereObserved ==
    cPhase = "return" =>
       \A b \in 0..(Window - 1) : OnlyPresentIn(b) =>
          /\ Len(df) = Window
          /\ \A k \in DOMAIN df :
                /\ df[k].mask = (IF k - 1 = b THEN 1 ELSE 0)
                /\ df[k].v = (IF k - 1 < b THEN normal_value_dict(cName)
                              ELSE CleanedValue(CHOOSE i \in PresentRows : TRUE))

C6_Witness ==
    /\ cPhase = "return"
    /\ OnlyPresentIn(10)
    /\ df[10].mask = 0 /\ df[10].v = normal_value_dict(cName)
    /\ df[11].mask = 1
    /\ df[48].mask = 0 /\ df[48].v = df[11].v

\* the positions at which the frame has been resampled
Resampled == {"categorical", "impute", "return"}

(***************************************************************************)
(* C7: for every resample rate r that evenly divides the 48-hour window    *)
(* the cleaned table has exactly 48 / r rows, whichever bins of the raw    *)
(* episode have data.                                                      *)
(***************************************************************************)
C7_ResampleShape ==
    (cPhase \in Resampled /\ Window % cRate = 0) => Len(df) = Window \div cRate

C7_Witness ==
    /\ cPhase = "return"
    /\ cRate = 12
    /\ Len(df) = 4
    /\ \E i \in DOMAIN cRaw : cRaw[i].hours = 48
    /\ \E i \in DOMAIN cRaw : cRaw[i].hours = 10 /\ ~IsNa(cRaw[i].v)

\* the raw rows whose hour lies in [lo, hi) and whose value is there once
\* the values out of bound are nulled
ObservedIn(lo, hi) ==
    {i \in DOMAIN cRaw : /\ lo <= cRaw[i].hours /\ cRaw[i].hours < hi
                         /\ ~IsNa(cRaw[i].v) /\ ~OutOfBound(cName, cRaw[i].v)}

\* row k of the resampled frame holds the last observation of [lo, hi)
HoldsLastOf(k, lo, hi) ==
    df[k].v = IF ObservedIn(lo, hi) = {} THEN NaN
              ELSE cRaw[CHOOSE i \in ObservedIn(lo, hi) :
                          \A j \in ObservedIn(lo, hi) : j <= i].v

(***************************************************************************)
(* C12: for every resample rate r that divides the window, row k of the    *)
(* resampled frame (k = 0 .. 48/r - 1) holds, before imputation, the last  *)
(* observation of the column whose hour lies in [k*r, (k+1)*r), and is     *)
(* missing exactly when there is none; a reading on the right edge of a    *)
(* bin belongs to the next bin and readings outside [0, 48) to no row.     *)
(***************************************************************************)
C12_BinContent ==
    (cPhase = "categorical" /\ Window % cRate = 0) =>
       /\ Len(df) = Window \div cRate
       /\ \A k \in DOMAIN df : HoldsLastOf(k, (k - 1) * cRate, k * cRate)

(***************************************************************************)
(* compute_feature_statistics, followed for one feature column, and the    *)
(* cleaning function on columns that hold values on, inside and outside    *)
(* the bound of the column.                                                *)
(***************************************************************************)
\* most rows of a column that is checked against its bound
MaxCol == 4

\* cells of such a column
BoundCells(name) ==
    IF name = Weight
    THEN {NaN, Num(-5), Num(0), Num(50), Num(200), Num(300), Num(310)}
    ELSE {NaN, Str(<<"5", " ", "O", "r", "i", "e", "n", "t", "e", "d">>), Str(<<"4", " ", "C", "o", "n", "f", "u", "s", "e", "d">>)}

\* the columns of up to MaxCol rows
BoundColumns(name) == UNION {[1..n -> BoundCells(name)] : n \in 0..MaxCol}

\* df.loc[(df[name] < lo) | (df[name] > hi), name] = np.nan
NullOutOfBound(name, col) ==
    [i \in DOMAIN col |-> IF OutOfBound(name, col[i]) THEN NaN ELSE col[i]]

\* the statistic of a column: the values the mean and the standard
\* deviation are taken over, or the mode
Stat(kind, over, code) == [stat |-> kind, over |-> over, code |-> code]

\* the values of a column that are not missing, in row order
RECURSIVE NotNa(_)
NotNa(col) ==
    IF Len(col) = 0 THEN <<>>
    ELSE IF IsNa(Head(col)) THEN NotNa(Tail(col))
    ELSE <<Head(col)>> \o NotNa(Tail(col))

\* categorical_cols.mode().iloc[0].astype(int): the smallest of the codes
\* that occur most often; no row when every value is missing
Mode(col) ==
    LET codes == {col[i].num : i \in {j \in DOMAIN col : ~IsNa(col[j])}}
        Count(c) == Cardinality({i \in DOMAIN col : col[i] = Num(c)})
        most == {c \in codes : \A d \in codes : Count(d) <= Count(c)}
    IN IF codes = {} THEN Raised("IndexError")
       ELSE Stat("mode", <<>>, CHOOSE c \in most : \A d \in most : c <= d)

InitStat ==
    /\ LoopIdle
    /\ StartupDone
    /\ MapIdle
    /\ CleanIdle
    /\ DistIdle
    /\ sPhase = "call"
    /\ sName \in {Weight, Verbal}
    /\ \E col \in BoundColumns(sName) : \E k \in 0..Len(col) :
          sFiles = <<SubSeq(col, 1, k), SubSeq(col, k + 1, Len(col))>>
    /\ df_in_one = <<>>
    /\ sResult = NaN

\* the whole call: concatenate, null what is out of bound, map the
\* categorical labels, take the mean and deviation or the mode
compute_feature_statistics ==
    /\ sPhase = "call"
    /\ LET nulled == NullOutOfBound(sName, Concat(sFiles))
           mapped == [i \in DOMAIN nulled |->
                        map_mimic3_benchmark_categorical_label(sName, nulled[i])]
       IN /\ df_in_one' = nulled
          /\ sResult' = IF FeatureType(sName) = "continuous"
                        THEN Stat("avg_std", NotNa(nulled), 0)
                        ELSE IF \E i \in DOMAIN mapped : mapped[i].kind = "raised"
                        THEN Raised("ValueError")
                        ELSE Mode(mapped)
    /\ sPhase' = "return"
    /\ UNCHANGED <<sName, sFiles>>
    /\ UNCHANGED <<mainVars, startVars, mapVars, cleanVars, stepVars, distVars>>

\* the cleaning function called on a table whose rows are an hour apart
InitBound ==
    \/ InitStat
    \/ /\ LoopIdle
       /\ StartupDone
       /\ MapIdle
       /\ StatIdle
       /\ DistIdle
       /\ cPhase = "bound"
       /\ cName \in {Weight, Verbal}
       /\ cRate = 1
       /\ \E col \in BoundColumns(cName) :
             cRaw = [i \in DOMAIN col |-> [hours |-> i - 1, v |-> col[i]]]
       /\ df = cRaw

NextBound ==
    \/ compute_feature_statistics
    \/ NextClean

SpecBound == InitBound /\ [][NextBound]_vars

\* what the claim says of a cell v of column name
NulledCell(name, v) ==
    IF name = Weight /\ v.kind = "num" /\ (v.num < 0 \/ v.num > 300) THEN NaN ELSE v

(***************************************************************************)
(* C11: in the cleaning function and in the statistics function alike, a   *)
(* value of a column with a declared bound (low, high) becomes missing if  *)
(* and only if it is strictly below low or strictly above high; values on  *)
(* the bound and inside it stay as they are, and a column without a bound  *)
(* is left untouched.                                                      *)
(***************************************************************************)
C11_BoundNulling ==
    /\ cPhase = "resample" =>
          /\ Len(df) = Len(cRaw)
          /\ \A i \in DOMAIN df :
                /\ df[i].hours = cRaw[i].hours
                /\ df[i].v = NulledCell(cName, cRaw[i].v)
    /\ sPhase = "return" =>
          /\ Len(df_in_one) = Len(Concat(sFiles))
          /\ \A i \in DOMAIN df_in_one :
                df_in_one[i] = NulledCell(sName, Concat(sFiles)[i])

\* the example of the claim, in the cleaning function
C11_Witness ==
    /\ cPhase = "resample"
    /\ cName = Weight
    /\ [i \in DOMAIN cRaw |-> cRaw[i].v] = <<Num(50), Num(310), Num(-5), Num(200)>>
    /\ [i \in DOMAIN df |-> df[i].v] = <<Num(50), NaN, NaN, Num(200)>>

(***************************************************************************)
(* distance_wb: the matching distance of a pair of gradients.              *)
(***************************************************************************)
\* most elements of a gradient, and its longest dimension
MaxElems == 4
MaxDim == 2

RECURSIVE Prod(_)
Prod(seq) == IF Len(seq) = 0 THEN 1 ELSE Head(seq) * Prod(Tail(seq))

RECURSIVE SumSeq(_)
SumSeq(seq) == IF Len(seq) = 0 THEN 0 ELSE Head(seq) + SumSeq(Tail(seq))

\* a mutation that keeps the last dimension and flattens the leading ones
Reshape2D_KeepLast(x) ==
    Tensor(<<Prod(SubSeq(x.shape, 1, Len(x.shape) - 1)), x.shape[Len(x.shape)]>>, x.data)

\* x.reshape(shape[0], product of the other dimensions): the elements stay
\* in row-major order
Reshape2D(x) == Tensor(<<x.shape[1], Prod(Tail(x.shape))>>, x.data)

\* row i of a two-dimensional tensor
Row(x, i) == SubSeq(x.data, (i - 1) * x.shape[2] + 1, i * x.shape[2])

\* torch.sum(a * b, dim=-1) of two rows
Dot(a, b) == SumSeq([k \in DOMAIN a |-> a[k] * b[k]])

\* 1 - torch.sum(gwr * gws, dim=-1) / (torch.norm(gwr, dim=-1) *
\* torch.norm(gws, dim=-1) + 0.000001) for one row, kept exact: the dot
\* product and the squares of the two norms
RowDistance(a, b) == [dot |-> Dot(a, b), rr |-> Dot(a, a), ss |-> Dot(b, b)]

\* the summands of torch.sum(...) over the rows
RowDistances(x, y) == [i \in 1..x.shape[1] |-> RowDistance(Row(x, i), Row(y, i))]

\* torch.tensor(0, dtype=torch.float)
ZeroTensor == [zero |-> TRUE, rows |-> <<>>]

distance_wb(x, y) ==
    IF Len(x.shape) \in {3, 4}
    THEN [zero |-> FALSE, rows |-> RowDistances(Reshape2D(x), Reshape2D(y))]
    ELSE IF Len(x.shape) = 2
    THEN [zero |-> FALSE, rows |-> RowDistances(x, y)]
    ELSE ZeroTensor

\* the shapes of rank 1 to 4
Shapes ==
    {sh \in UNION {[1..r -> 1..MaxDim] : r \in 1..4} : Prod(sh) <= MaxElems}

\* the elements of a gradient
Elems == {-1, 0, 1}

InitDist ==
    /\ LoopIdle
    /\ StartupDone
    /\ MapIdle
    /\ CleanIdle
    /\ StatIdle
    /\ dPhase = "call"
    /\ \E sh \in Shapes :
          /\ gwr \in {Tensor(sh, d) : d \in [1..Prod(sh) -> Elems]}
          /\ gws \in {Tensor(sh, d) : d \in [1..Prod(sh) -> Elems]}
    /\ dis = [zero |-> FALSE, rows |-> <<>>]

DistanceCall ==
    /\ dPhase = "call"
    /\ dis' = distance_wb(gwr, gws)
    /\ dPhase' = "return"
    /\ UNCHANGED <<gwr, gws>>
    /\ UNCHANGED <<mainVars, startVars, mapVars, cleanVars, statVars, stepVars>>

NextDist == DistanceCall

SpecDist == InitDist /\ [][NextDist]_vars

\* a summand is 1 - dot / (sqrt(rr) * sqrt(ss) + 0.000001).  It is 1 when
\* the dot product is 0
IsOne(d) == d.dot = 0

\* It is 0.000001 / (rr + 0.000001), which is above 0 and at most a millionth,
\* when both rows are the same row and not zero: dot = rr = ss >= 1
IsEpsilon(d) == d.dot = d.rr /\ d.dot = d.ss /\ d.dot >= 1

\* the rows of the pair when its elements are laid out as rows of length n
RowsOf(x, n) == [i \in 1..(Len(x.data) \div n) |-> SubSeq(x.data, (i - 1) * n + 1, i * n)]

\* the length of a row once the dimensions after the first are flattened
FlatRowLen(x) == Len(x.data) \div x.shape[1]

C13_Inv ==
    /\ pc \in {"class_grad", "data_step", "copy", "net_update", "train_end"} =>
          /\ net.id = it + 1
          /\ net.steps = netSteps
    /\ pc \in {"class_grad", "data_step"} =>
          /\ l < NUM_INNER_LOOPS /\ s = 0
          /\ dataSteps = l
          /\ net.steps = NUM_UPDT_STEPS_NET * l
          /\ Len(grads) = cls
          /\ \A i \in DOMAIN grads :
                /\ grads[i].cls = i - 1
                /\ grads[i].net = net
                /\ grads[i].feat = mem[feat_syn]
    /\ pc = "data_step" => Len(grads) = IHM_NUM_CLS
    /\ pc \in {"copy", "net_update"} =>
          /\ dataSteps = l + 1
          /\ Len(grads) = IHM_NUM_CLS
          /\ \A i \in DOMAIN grads : mem[feat_syn] = grads[i].feat + 1
    /\ pc = "copy" => net.steps = NUM_UPDT_STEPS_NET * l
    /\ pc = "net_update" =>
          /\ s < NUM_UPDT_STEPS_NET
          /\ net.steps = NUM_UPDT_STEPS_NET * l + s
          /\ feat_syn_train # feat_syn /\ lab_syn_train # lab_syn
          /\ mem[feat_syn_train] = mem[feat_syn]
    /\ pc = "train_end" =>
          /\ l = NUM_INNER_LOOPS
          /\ dataSteps = NUM_INNER_LOOPS
          /\ netSteps = NUM_INNER_LOOPS * NUM_UPDT_STEPS_NET

C13_Step ==
    /\ net'.id # net.id => pc = "break_if" /\ pc' = "class_grad" /\ net'.steps = 0
    /\ (net'.id = net.id /\ net'.steps # net.steps) =>
          pc = "net_update" /\ net'.steps = net.steps + 1
    /\ mem'[feat_syn] # mem[feat_syn] => pc = "data_step" /\ pc' = "copy"

C13_MatchingOrder ==
    /\ []C13_Inv
    /\ [][C13_Step]_vars

\* the last network step of the last round of the second matching procedure
C13_Witness ==
    /\ pc = "train_end"
    /\ it = 1
    /\ net = [id |-> 2, steps |-> 500]
    /\ dataSteps = 10
    /\ mem[feat_syn] = 20

(***************************************************************************)
(* Positions of the outer loop.                                            *)
(***************************************************************************)
EvalPositions == {"eval_vis", "eval_sample", "eval_train", "eval_test", "eval_end"}
TrainPositions == {"class_grad", "data_step", "copy", "net_update", "train_end"}

\* the matching procedures started so far
TrainingsStarted == net.id

(***************************************************************************)
(* C1: the body of the outer loop runs for it = 0, 1, ..., NUM_OUTER_LOOPS *)
(* in increasing order, the matching procedure runs in every iteration     *)
(* below NUM_OUTER_LOOPS and never in iteration NUM_OUTER_LOOPS, and the   *)
(* run terminates after that last iteration.                               *)
(***************************************************************************)
C1_Inv ==
    /\ it \in -1..NUM_OUTER_LOOPS
    /\ rangeNext = it + 1
    /\ pc \in TrainPositions => it < NUM_OUTER_LOOPS /\ TrainingsStarted = it + 1
    /\ pc = "for" => TrainingsStarted = rangeNext /\ Len(avg_losses) = rangeNext
    /\ pc = "done" => /\ it = NUM_OUTER_LOOPS
                      /\ TrainingsStarted = NUM_OUTER_LOOPS
                      /\ Len(avg_losses) = NUM_OUTER_LOOPS
                      /\ Len(eval_its) > 0 /\ eval_its[Len(eval_its)] = it
                      /\ files[CheckpointPath].it = it

C1_OuterLoopCount ==
    /\ []C1_Inv
    /\ [][it' # it => it' = it + 1]_vars
    /\ <>(pc = "done")

C1_Witness ==
    /\ pc = "done"
    /\ it = 1000
    /\ rangeNext = 1001
    /\ Len(avg_losses) = 1000

(***************************************************************************)
(* C2: the checkpoint is saved in every iteration, before the training of  *)
(* that iteration and whether or not evaluation ran, always to the one     *)
(* path of the run configuration; once an iteration has completed there is *)
(* exactly one checkpoint file and its "it" is the iteration completed     *)
(* last.                                                                   *)
(***************************************************************************)
CheckpointFiles ==
    {f \in DOMAIN files : f[1] = "chckpnt_ihm_" /\ f[2] = SPC /\ f[3] = "spc_noise.pth"}

C2_CheckpointOverwrite ==
    /\ (pc \in {"break_if", "done"} \cup TrainPositions \/ (pc = "for" /\ rangeNext >= 1))
          => /\ CheckpointFiles = {CheckpointPath}
             /\ files[CheckpointPath].it = it
    /\ (pc = "break_if" /\ it = 0)
          => /\ files[CheckpointPath].optim_losses = <<>>
             /\ files[CheckpointPath].feat_syn = 0

C2_Witness ==
    /\ pc = "for"
    /\ rangeNext = 2
    /\ files[CheckpointPath].it = 1
    /\ ~EvalDue(1)

(***************************************************************************)
(* C3: evaluation runs in iteration it exactly when it is a multiple of    *)
(* EVAL_INTERVAL (0 included), 11 rounds in a full run; outside a round    *)
(* the four histories have the same length, and each round saved one       *)
(* it<iteration>.png.                                                      *)
(***************************************************************************)
\* the multiples of EVAL_INTERVAL up to i, in order
EvalRoundsUpTo(i) == [k \in 1..((i \div EVAL_INTERVAL) + 1) |-> (k - 1) * EVAL_INTERVAL]

EvalVisFiles == {f \in DOMAIN files : f[1] = "it"}

C3_EvalSchedule ==
    /\ pc \in EvalPositions => it % EVAL_INTERVAL = 0
    /\ pc \in {"checkpoint", "break_if", "done"} \cup TrainPositions
          => eval_its = EvalRoundsUpTo(it)
    /\ pc \notin EvalPositions
          => /\ Len(feat_syn_snapshots) = Len(eval_its)
             /\ Len(eval_scores_train) = Len(eval_its)
             /\ Len(eval_scores_test) = Len(eval_its)
             /\ EvalVisFiles = {EvalVisPath(eval_its[k]) : k \in DOMAIN eval_its}
             /\ Cardinality(EvalVisFiles) = Len(eval_its)
    /\ pc = "done" => Len(eval_its) = 11

C3_Witness ==
    /\ pc = "done"
    /\ eval_its = <<0, 100, 200, 300, 400, 500, 600, 700, 800, 900, 1000>>
    /\ Len(eval_scores_test) = 11
    /\ EvalVisPath(1000) \in DOMAIN files

(***************************************************************************)
(* C9: the content of the live synthetic feature tensor changes only in    *)
(* the data-optimizer step of the matching procedure; the label tensor     *)
(* never changes; the snapshots, the copies held by the checkpoint and by  *)
(* the network update, and the saved files keep their content while the    *)
(* live tensor is updated.                                                 *)
(***************************************************************************)
C9_Frame ==
    /\ feat_syn' = feat_syn /\ lab_syn' = lab_syn
    /\ mem'[feat_syn] # mem[feat_syn] => pc = "data_step"
    /\ mem'[lab_syn] = mem[lab_syn]
    /\ \A i \in DOMAIN feat_syn_snapshots :
          /\ feat_syn_snapshots'[i] = feat_syn_snapshots[i]
          /\ mem'[feat_syn_snapshots[i]] = mem[feat_syn_snapshots[i]]
    /\ (checkpoint' = checkpoint /\ checkpoint.feat_syn # NoTensor)
          => /\ mem'[checkpoint.feat_syn] = mem[checkpoint.feat_syn]
             /\ mem'[checkpoint.lab_syn] = mem[checkpoint.lab_syn]
    /\ (feat_syn_train' = feat_syn_train /\ feat_syn_train # NoTensor)
          => mem'[feat_syn_train] = mem[feat_syn_train]
    /\ \A f \in CheckpointFiles \cup EvalVisFiles :
          (f \in CheckpointFiles => pc # "checkpoint")
             => f \in DOMAIN files' /\ files'[f] = files[f]

\* no copy shares the storage of the live tensor
C9_NoAlias ==
    /\ feat_syn \notin Range(feat_syn_snapshots) \cup {checkpoint.feat_syn, feat_syn_train}
    /\ \A i \in DOMAIN feat_syn_snapshots :
          mem[feat_syn_snapshots[i]] = NUM_INNER_LOOPS * eval_its[i]

C9_SyntheticDataOwnership ==
    /\ []C9_NoAlias
    /\ [][C9_Frame]_vars

C9_Witness ==
    /\ pc = "net_update"
    /\ Len(feat_syn_snapshots) = 2
    /\ mem[feat_syn_snapshots[1]] = 0
    /\ mem[feat_syn_snapshots[2]] = 1000
    /\ mem[feat_syn] = 1001
    /\ mem[feat_syn_train] = 1001
    /\ mem[checkpoint.feat_syn] = 1000
    /\ files[CheckpointPath].feat_syn = 1000

\* the multiples of EVAL_INTERVAL up to k, in order
EvalItsUpTo(k) == [i \in 1..(k \div EVAL_INTERVAL + 1) |-> (i - 1) * EVAL_INTERVAL]

(***************************************************************************)
(* C15: when the checkpoint of outer iteration k has just been written,    *)
(* the loss history it records has k entries, the synthetic features it    *)
(* records have received NUM_INNER_LOOPS * k data steps, and the evaluated *)
(* iterations it records are the multiples of EVAL_INTERVAL up to k; when  *)
(* the run has ended the loss history has NUM_OUTER_LOOPS entries.         *)
(***************************************************************************)
C15_CheckpointConsistency ==
    /\ pc = "break_if" =>
          /\ files[CheckpointPath].it = it
          /\ Len(files[CheckpointPath].optim_losses) = it
          /\ files[CheckpointPath].optim_losses = avg_losses
          /\ files[CheckpointPath].feat_syn = NUM_INNER_LOOPS * it
          /\ files[CheckpointPath].eval_its = EvalItsUpTo(it)
    /\ pc = "done" =>
          /\ Len(avg_losses) = NUM_OUTER_LOOPS
          /\ Len(files[CheckpointPath].optim_losses) = NUM_OUTER_LOOPS

C15_Witness ==
    /\ pc = "break_if"
    /\ it = 250
    /\ Len(files[CheckpointPath].optim_losses) = 250
    /\ files[CheckpointPath].feat_syn = 2500
    /\ files[CheckpointPath].eval_its = <<0, 100, 200>>

====
